---- MODULE Spec2Model ----
(***************************************************************************)
(* A model of youmirror: the URL classifier and the resolver (tuber.py),   *)
(* the record store (databaser.py), the stream choice (downloader.py), the *)
(* collision stub (helper.py), the mirror orchestrator (core.py: new, add, *)
(* remove, sync) and the new and sync commands (cli.py).                   *)
(*                                                                         *)
(* Strings the code searches inside (URLs) are sequences of one-character  *)
(* strings, so that Python's `in` is a real substring test.  Ids extracted *)
(* from URLs are such sequences too; names and paths are sequences of      *)
(* strings.                                                                *)
(***************************************************************************)
EXTENDS Integers, Sequences, FiniteSets, TLC

VARIABLES
    url,        \* SpecParser: the URL string under test
    call,       \* SpecParser: the last parser call and what it produced
    store,      \* the record-store file: table name -> (key -> record)
    created,    \* names of the tables that exist in the record-store file
    dbcall,     \* SpecStore: the last databaser call and what it produced
    nWrites,    \* SpecStore: number of set_item calls made
    dirExists,  \* the mirror root directory exists
    cfgExists,  \* the config file exists
    dbExists,   \* the record-store file exists
    diskConfig, \* the config file's contents: kind -> (id -> specs)
    memConfig,  \* YouMirror.config, the config held in memory
    defaults,   \* configurer.defaults, the module-level options dict
    diskFiles,  \* media files present under the mirror root
    last,       \* the last orchestrator operation, its inputs and outcome
    nOps,       \* number of orchestrator operations made
    cache,      \* SpecResolver: the url -> pytube object cache passed to get_pytube
    built,      \* SpecResolver: url -> number of pytube objects constructed for it
    rcall,      \* SpecResolver: the last resolver call and what it produced
    nCalls,     \* SpecResolver: number of resolver calls made
    streams,    \* SpecDownloader: the mp4 streams the video offers, by resolution
    scall       \* SpecDownloader: the last downloader call and what it produced

vars == <<url, call, store, created, dbcall, nWrites, dirExists, cfgExists,
          dbExists, diskConfig, memConfig, defaults, diskFiles, last, nOps,
          cache, built, rcall, nCalls, streams, scall>>

parserVars == <<url, call>>
storeVars  == <<store, created, dbcall, nWrites>>
mirrorVars == <<dirExists, cfgExists, dbExists, diskConfig, memConfig,
                defaults, diskFiles, last, nOps>>
resolverVars == <<cache, built, rcall, nCalls>>
downloaderVars == <<streams, scall>>

-----------------------------------------------------------------------------
(* Bounds *)

\* A URL under test is the concatenation of at most MaxFrags fragments.
MaxFrags == 2
\* At most MaxWrites set_item calls in one run of SpecStore.
MaxWrites == 3
\* At most MaxOps orchestrator operations in one run of Spec.
MaxOps == 2
\* At most MaxCalls resolver calls in one run of SpecResolver.
MaxCalls == 3

-----------------------------------------------------------------------------
(* Python values *)

\* Python's None, where the code returns it in place of a string.
None == "<None>"

\* The empty mapping.
EmptyMap == [k \in {} |-> None]

\* dict[key] = value
Put(d, k, v) == [x \in (DOMAIN d) \cup {k} |-> IF x = k THEN v ELSE d[x]]

\* del dict[key]
Del(d, k) == [x \in (DOMAIN d) \ {k} |-> d[x]]

\* Python's `pat in s` on strings.
Contains(s, pat) ==
    \E i \in 1..(Len(s) - Len(pat) + 1) : SubSeq(s, i, i + Len(pat) - 1) = pat

\* The part of s after the first occurrence of pat (s contains pat).
AfterFirst(s, pat) ==
    LET i == CHOOSE j \in 1..(Len(s) - Len(pat) + 1) :
                 /\ SubSeq(s, j, j + Len(pat) - 1) = pat
                 /\ \A k \in 1..(j - 1) : SubSeq(s, k, k + Len(pat) - 1) # pat
    IN SubSeq(s, i + Len(pat), Len(s))

-----------------------------------------------------------------------------
(* tuber.py: the URL classifier *)

S_user     == <<"/", "u", "s", "e", "r", "/">>
S_channel  == <<"/", "c", "h", "a", "n", "n", "e", "l", "/">>
S_c        == <<"/", "c", "/">>
S_playlist == <<"p", "l", "a", "y", "l", "i", "s", "t", "?", "l", "i", "s", "t">>
S_watch    == <<"w", "a", "t", "c", "h", "?", "v", "=">>

channel_strings == {S_user, S_channel, S_c}

\* A plausible slip: the playlist and single tests run before the channel test.
link_type_reordered(u) ==
    IF Contains(u, S_playlist) THEN "playlist"
    ELSE IF Contains(u, S_watch) THEN "single"
    ELSE IF \E s \in channel_strings : Contains(u, s) THEN "channel"
    ELSE None

link_type(u) ==
    IF \E s \in channel_strings : Contains(u, s) THEN "channel"
    ELSE IF Contains(u, S_playlist) THEN "playlist"
    ELSE IF Contains(u, S_watch) THEN "single"
    ELSE None

Kinds == {"channel", "playlist", "single"}

\* pytube's extract.channel_name / playlist_id / video_id: the id is what
\* follows the marker; the extractor raises when there is nothing to extract.
S_list == <<"l", "i", "s", "t", "=">>
S_v    == <<"v", "=">>

\* The markers each extractor tries, in the order it tries them.
ExtractMarkers(kind) ==
    CASE kind = "channel"  -> <<S_c, S_channel, S_user>>
      [] kind = "playlist" -> <<S_list>>
      [] kind = "single"   -> <<S_v>>

extract(kind, u) ==
    LET ms    == ExtractMarkers(kind)
        found == {i \in 1..Len(ms) :
                     Contains(u, ms[i]) /\ AfterFirst(u, ms[i]) # <<>>}
    IN IF found = {} THEN [raised |-> TRUE, value |-> <<>>]
       ELSE LET i == CHOOSE j \in found : \A k \in found : j <= k
            IN [raised |-> FALSE, value |-> AfterFirst(u, ms[i])]

\* A plausible slip: the kind is not worked out when none is passed.
link_id_no_default(u, yt_string) ==
    IF yt_string \notin Kinds
    THEN [raised |-> TRUE, value |-> <<>>]
    ELSE extract(yt_string, u)

\* link_id(url, yt_string): raised tells whether the call raised, value is the
\* id it returned.
link_id(u, yt_string) ==
    LET ys == IF yt_string = None THEN link_type(u) ELSE yt_string
    IN IF ys \notin Kinds
       THEN [raised |-> TRUE, value |-> <<>>]      \* KeyError at the dict lookup
       ELSE extract(ys, u)

-----------------------------------------------------------------------------
(* SpecParser: the classifier applied to URL strings *)

Fragments ==
    { S_user, S_channel, S_c, S_playlist, S_watch,
      <<"/">>, <<"c">>, <<"/", "c">>, <<"=", "a">>, <<"x">>, <<"a">>,
      <<"w", "a", "t", "c", "h", "?", "v">>, <<"=">> }

RECURSIVE UrlsUpTo(_)
UrlsUpTo(n) ==
    IF n = 0 THEN {<<>>}
    ELSE LET shorter == UrlsUpTo(n - 1)
         IN shorter \cup {s \o f : s \in shorter, f \in Fragments}

TestUrls == UrlsUpTo(MaxFrags)

NoCall == [fn |-> "none", url |-> <<>>, kind |-> None, result |-> None,
           id |-> <<>>, raised |-> FALSE, again |-> FALSE, before |-> None]

ParserInit ==
    /\ url \in TestUrls
    /\ call = NoCall

\* link_type(url) is called; `again` tells that the previous call was
\* link_type on the same string and `before` is what that call returned.
CallLinkType ==
    /\ call' = [fn |-> "link_type", url |-> url, kind |-> None,
                result |-> link_type(url), id |-> <<>>, raised |-> FALSE,
                again |-> (call.fn = "link_type" /\ call.url = url),
                before |-> call.result]
    /\ UNCHANGED <<url, storeVars, mirrorVars, resolverVars, downloaderVars>>

\* link_id(url) or link_id(url, yt_string) is called.
CallLinkId(yt_string) ==
    /\ LET r == link_id(url, yt_string)
       IN call' = [fn |-> "link_id", url |-> url, kind |-> yt_string,
                   result |-> None, id |-> r.value, raised |-> r.raised,
                   again |-> FALSE, before |-> None]
    /\ UNCHANGED <<url, storeVars, mirrorVars, resolverVars, downloaderVars>>

ParserNext ==
    \/ CallLinkType
    \/ \E ys \in Kinds \cup {None} : CallLinkId(ys)

-----------------------------------------------------------------------------
(* databaser.py: the record store *)

valid_tables == {"channel", "playlist", "single", "paths", "files"}

\* The table names core.py asks for, in add and in remove.
AddTables    == <<"channels", "playlists", "singles", "paths", "files">>
RemoveTables == <<"channels", "playlists", "singles", "filetree">>

\* Every name a table is asked for by, and one nobody declares.
TableNames ==
    valid_tables \cup {"channels", "playlists", "singles", "filetree", "bogus"}

\* A plausible repair/slip: the set names the tables the way core.py does.
get_table_plural(table) ==
    IF table \in {"channels", "playlists", "singles", "paths", "files"}
    THEN table ELSE None

\* get_table(path, table): the handle of the table (its name), or None.
get_table(table) ==
    IF table \in valid_tables THEN table ELSE None

\* Opening a handle creates the table in the file when it is not there yet.
Opened(names) == {names[i] : i \in {j \in 1..Len(names) : get_table(names[j]) # None}}

\* set_item(id, keys, table): the table afterwards and whether id was returned.
\* A None table makes the assignment raise, which the except clause swallows.
set_item(id, keys, handle, tables) ==
    IF handle = None
    THEN [tables |-> tables, returned |-> FALSE]
    ELSE [tables |-> [tables EXCEPT ![handle] = Put(@, id, keys)],
          returned |-> TRUE]

EmptyStore == [t \in TableNames |-> EmptyMap]

-----------------------------------------------------------------------------
(* SpecStore: the record store driven directly *)

TestIds  == {<<>>, <<"a">>, <<"b">>}
TestKeys == {[type |-> "file"], [type |-> "path"]}

NoDbCall == [fn |-> "none", name |-> None, handle |-> None, id |-> <<>>,
             keys |-> [type |-> None], returned |-> FALSE,
             before |-> EmptyMap, createdBefore |-> {}]

StoreInit ==
    /\ store = EmptyStore
    /\ created = {}
    /\ dbcall = NoDbCall
    /\ nWrites = 0

GetTable(name) ==
    /\ dbcall' = [NoDbCall EXCEPT !.fn = "get_table", !.name = name,
                                 !.handle = get_table(name),
                                 !.createdBefore = created]
    /\ created' = created \cup Opened(<<name>>)
    /\ UNCHANGED <<store, nWrites, parserVars, mirrorVars, resolverVars,
                   downloaderVars>>

SetItem(id, keys, name) ==
    /\ nWrites < MaxWrites
    /\ LET h == get_table(name)
           r == set_item(id, keys, h, store)
       IN /\ store' = r.tables
          /\ dbcall' = [fn |-> "set_item", name |-> name, handle |-> h,
                        id |-> id, keys |-> keys, returned |-> r.returned,
                        before |-> store[name], createdBefore |-> created]
    /\ created' = created \cup Opened(<<name>>)
    /\ nWrites' = nWrites + 1
    /\ UNCHANGED <<parserVars, mirrorVars, resolverVars, downloaderVars>>

StoreNext ==
    \/ \E name \in TableNames : GetTable(name)
    \/ \E id \in TestIds, keys \in TestKeys, name \in {"paths", "files", "singles"} :
          SetItem(id, keys, name)

-----------------------------------------------------------------------------
(* The video platform as the orchestrator sees it *)

U_single   == S_watch \o <<"a">>                 \* watch?v=a
U_playlist == S_playlist \o <<"=", "p">>          \* playlist?list=p
U_channel  == S_c \o <<"k">>                      \* /c/k
U_single2  == S_watch \o <<"b">>                 \* watch?v=b
U_noid     == S_watch                             \* watch?v=   (no id to extract)
U_bad      == <<"x">>                             \* no known shape

MirrorUrls == {U_single, U_playlist, U_channel, U_noid, U_bad}

NoObject == [kind |-> None, id |-> <<>>, url |-> <<>>]

\* wrap_url: the pytube constructor for the kind; it extracts the id from the
\* URL and raises when it cannot.
wrap_url(u, kind) ==
    LET e == extract(kind, u)
    IN [raised |-> e.raised, object |-> [kind |-> kind, id |-> e.value, url |-> u]]

\* get_pytube as core.py calls it (no cache): the object, or None on failure.
get_pytube(u) ==
    LET url_type == link_type(u)
    IN IF url_type \notin Kinds THEN NoObject
       ELSE LET w == wrap_url(u, url_type)
            IN IF w.raised THEN NoObject ELSE w.object

yt_to_type_string(yt) == IF yt.kind \in Kinds THEN yt.kind ELSE None

get_id(yt) == IF yt.kind \in Kinds THEN yt.id ELSE <<>>

\* Titles the platform reports (a network read).
Title(yt) ==
    CASE yt.kind = "single"   -> <<"a", " ", "b">>
      [] yt.kind = "playlist" -> <<"P">>
      [] yt.kind = "channel"  -> <<"K">>

get_name(yt) == Title(yt)

get_url(yt) == yt.url

\* video_urls of a container (a network read).
get_children(yt) ==
    CASE yt.kind = "playlist" -> <<U_single, U_single2>>
      [] yt.kind = "channel"  -> <<>>
      [] OTHER                -> <<>>

\* The first of tuber.py's two definitions of is_available: it logs a failed
\* probe and returns True all the same.
is_available_first(probeOk) == TRUE

\* tuber.py defines is_available twice; the second definition is the one bound.
is_available(probeOk) == probeOk

SeqRange(q) == {q[i] : i \in 1..Len(q)}

get_metadata(yt, probeOk) ==
    IF yt.kind \in {"channel", "playlist"}
    THEN [name |-> get_name(yt), url |-> get_url(yt),
          children |-> {link_id(c, "single").value : c \in SeqRange(get_children(yt))},
          available |-> TRUE]
    ELSE [name |-> get_name(yt), url |-> get_url(yt),
          available |-> is_available(probeOk)]

-----------------------------------------------------------------------------
(* filer: the path planner *)

S_slash   == <<"/">>
S_singles == <<"s", "i", "n", "g", "l", "e", "s">>
S_playlists == <<"p", "l", "a", "y", "l", "i", "s", "t", "s">>
S_channels == <<"c", "h", "a", "n", "n", "e", "l", "s">>
S_NoneStr == <<"N", "o", "n", "e">>
S_mp4     == <<".", "m", "p", "4">>
S_mp3     == <<".", "m", "p", "3">>
S_srt     == <<".", "s", "r", "t">>
S_jpg     == <<".", "j", "p", "g">>

\* name.replace(' ', '_')
Underscored(name) == [i \in 1..Len(name) |-> IF name[i] = " " THEN "_" ELSE name[i]]

KindDir(kind) ==
    CASE kind = "single"   -> S_singles
      [] kind = "playlist" -> S_playlists
      [] kind = "channel"  -> S_channels

Extension(file_type) ==
    CASE file_type = "video"     -> S_mp4
      [] file_type = "audio"     -> S_mp3
      [] file_type = "caption"   -> S_srt
      [] file_type = "thumbnail" -> S_jpg

\* Tall layout: entityKind/parentName.
calculate_path(yt_string, parent_name, name) ==
    IF parent_name = <<>> THEN KindDir(yt_string)
    ELSE KindDir(yt_string) \o S_slash \o Underscored(parent_name)

calculate_filename(file_type, name) == Underscored(name) \o Extension(file_type)

resolve_collision(path, paths, yt_id) ==
    IF path \in DOMAIN paths THEN path \o yt_id ELSE path

-----------------------------------------------------------------------------
(* tuber.py: the keys recorded for an entity *)

Update(d, e) ==
    [x \in (DOMAIN d) \cup (DOMAIN e) |-> IF x \in DOMAIN e THEN e[x] ELSE d[x]]

FileTypes == <<"video", "audio", "caption", "thumbnail">>

Wanted(options, file_type) ==
    CASE file_type = "video"     -> options.dl_video
      [] file_type = "audio"     -> options.dl_audio
      [] file_type = "caption"   -> options.dl_captions
      [] file_type = "thumbnail" -> options.dl_thumbnail

\* get_files(path, yt_name, options): file path -> file record.
get_files(path, yt_name, options) ==
    LET plain == {t \in SeqRange(FileTypes) : Wanted(options, t) /\ t # "caption"}
        caps  == IF Wanted(options, "caption") THEN options.captions ELSE {}
        PlainPath(t) == path \o S_slash \o calculate_filename(t, yt_name)
        CapPath(c)   == path \o S_slash
                            \o calculate_filename("caption", yt_name \o <<"_">> \o c)
    IN [f \in {PlainPath(t) : t \in plain} \cup {CapPath(c) : c \in caps} |->
           IF \E t \in plain : f = PlainPath(t)
           THEN [type |-> CHOOSE t \in plain : f = PlainPath(t), caption_type |-> <<>>]
           ELSE [type |-> "caption", caption_type |-> CHOOSE c \in caps : f = CapPath(c)]]

\* get_keys(yt, keys, options, paths): keys, updated with the metadata, the
\* resolved path and, for a single, its parent and its files.
get_keys(yt, keys, options, paths, probeOk) ==
    LET yt_string == yt_to_type_string(yt)
        yt_id     == get_id(yt)
        name      == get_name(yt)
        Passed(k) == k \in DOMAIN keys
        ys        == IF Passed("parent_type") THEN keys.parent_type ELSE "single"
        temp      == IF yt_string \in {"channel", "playlist"}
                     THEN calculate_path(yt_string, name, <<>>)
                     ELSE IF ~Passed("path")
                     THEN calculate_path(ys, <<>>, name)
                     ELSE keys.path \o S_slash \o Underscored(name)
        path      == resolve_collision(temp, paths, yt_id)
    IN IF yt_string \in {"channel", "playlist"}
       THEN Update(Update(keys, get_metadata(yt, probeOk)), [path |-> path])
       ELSE Update(Update(keys, get_metadata(yt, probeOk)),
                   [parent_name |-> IF Passed("parent_name") THEN keys.parent_name
                                    ELSE S_NoneStr,
                    parent_type |-> ys,
                    path        |-> path,
                    files       |-> get_files(path, name, options)])

-----------------------------------------------------------------------------
(* configurer and downloader: options and the config file *)

\* downloader.resolutions, from the highest to the lowest.
resolutions ==
    <<"2160p", "1440p", "1080p", "720p", "480p", "360p", "240p", "144p">>

\* configurer.defaults as the module is imported.
DefaultOptions ==
    [resolution |-> None, dl_video |-> TRUE, dl_audio |-> FALSE,
     dl_captions |-> FALSE, dl_thumbnail |-> FALSE, captions |-> {}]

EmptyConfig == [k \in Kinds |-> EmptyMap]

yt_exists(yt_string, id, config) ==
    /\ yt_string \in DOMAIN config
    /\ id \in DOMAIN config[yt_string]

\* The command-line arguments of add and of remove.
AddArgs ==
    [resolution : {None, "720p", "999p"}, force : BOOLEAN, dry_run : BOOLEAN,
     no_dl : BOOLEAN, no_rm : {FALSE}]

RemoveArgs ==
    [resolution : {None}, force : {FALSE}, dry_run : {FALSE}, no_dl : {FALSE},
     no_rm : BOOLEAN]

NoArgs == [resolution |-> None, force |-> FALSE, dry_run |-> FALSE,
           no_dl |-> FALSE, no_rm |-> FALSE]

\* active_options = configurer.defaults, updated in place with the command line.
active_options(dflt, kw) ==
    IF kw.resolution # None THEN [dflt EXCEPT !.resolution = kw.resolution] ELSE dflt

\* The entry add writes into the config for an entity.
Specs(yt, kw) == [name |-> get_name(yt), url |-> get_url(yt), resolution |-> kw.resolution]

-----------------------------------------------------------------------------
(* core.py: YouMirror.add *)

\* string_to_table: the handle add and remove use for an entity of a kind.
string_to_table(yt_string) ==
    CASE yt_string = "channel"  -> get_table("channels")
      [] yt_string = "playlist" -> get_table("playlists")
      [] yt_string = "single"   -> get_table("singles")

\* A plausible slip: the config held in memory is saved when the call is cut
\* short by an exception.
Ended_saves(outcome, why, mem, dflt, cfg, st, made, prompted) ==
    [outcome |-> outcome, why |-> why, mem |-> mem, dflt |-> dflt,
     cfg |-> IF outcome = "raised" THEN mem ELSE cfg,
     st |-> st, made |-> made, prompted |-> prompted]

\* The result of one call: how it ended and every piece of state it leaves.
Ended(outcome, why, mem, dflt, cfg, st, made, prompted) ==
    [outcome |-> outcome, why |-> why, mem |-> mem, dflt |-> dflt, cfg |-> cfg,
     st |-> st, made |-> made, prompted |-> prompted]

\* Lines 200-229: the size calculation, the confirmation prompt, the commit.
AddDownload(id, files, paths, to_download, kw, answer, mem, dflt, st, made) ==
    LET files_table == get_table("files")
        paths_table == get_table("paths")
    IN IF to_download # <<>>
       THEN \* files is keyed by file path, so files[id] raises unless id is one;
            \* downloader.calculate_filesize does not exist
            Ended("raised", IF id \in DOMAIN files THEN "line208" ELSE "line204",
                  mem, dflt, diskConfig, st, made, FALSE)
       ELSE IF ~kw.force /\ answer # "y"
       THEN Ended("returned", "aborted", mem, dflt, diskConfig, st, made, TRUE)
       ELSE LET st1 == [st EXCEPT ![files_table] = Update(@, files),
                                  ![paths_table] = Update(@, paths)]
            IN Ended("returned", "done", mem, dflt, mem, st1, made, ~kw.force)

\* Lines 124-198: the config entry, the tables, the records.
AddRecord(yt, kw, answer, mem0, dflt) ==
    LET id          == get_id(yt)
        yt_string   == yt_to_type_string(yt)
        mem         == [mem0 EXCEPT ![yt_string] = Put(@, id, Specs(yt, kw))]
        made        == created \cup Opened(AddTables)
        paths_table == get_table("paths")
        files_table == get_table("files")
        table       == string_to_table(yt_string)
    IN IF paths_table = None \/ files_table = None
       THEN Ended("raised", "line148", mem, dflt, diskConfig, store, made, FALSE)
       ELSE LET keys == get_keys(yt, EmptyMap, dflt, store[paths_table], TRUE)
            IN IF table = None
               THEN Ended("raised", "line151", mem, dflt, diskConfig, store, made, FALSE)
               ELSE LET st1 == [store EXCEPT ![table] = Put(@, id, keys)]
                    IN IF "children" \in DOMAIN keys
                       THEN \* keys holds "path", never "paths"
                            Ended("raised", "line164", mem, dflt, diskConfig, st1, made, FALSE)
                       ELSE LET files == keys.files
                                st2   == [st1 EXCEPT ![files_table] =
                                            Update(@, [f \in DOMAIN files |-> [type |-> "file"]])]
                            IN IF kw.no_dl
                               THEN Ended("returned", "no_dl", mem, dflt, mem, st2, made, FALSE)
                               ELSE AddDownload(id, files, EmptyMap, <<yt>>, kw, answer,
                                                mem, dflt, st2, made)

\* What the parser makes of each URL the mirror is driven with: link_type(url),
\* link_id(url) and get_pytube(url), tabulated once.
Parsed ==
    [u \in MirrorUrls |->
        [kind |-> link_type(u), lid |-> link_id(u, None), yt |-> get_pytube(u)]]

\* Lines 96-121: the URL is parsed and the entity's specs are collected.
AddParse(u, kw, net, answer, mem, dflt) ==
    LET yt_string == Parsed[u].kind
        lid       == Parsed[u].lid
        Stop(outcome, why) ==
            Ended(outcome, why, mem, dflt, diskConfig, store, created, FALSE)
    IN IF yt_string = None THEN Stop("returned", "invalid_url")
       ELSE IF lid.raised
       THEN \* the except clause logs and falls through; yt and name are unbound
            \* and line 121 raises
            Stop("raised", "line101")
       ELSE IF lid.value = <<>> THEN Stop("returned", "no_id")
       ELSE IF yt_exists(yt_string, lid.value, mem) THEN Stop("returned", "exists")
       ELSE LET yt == Parsed[u].yt
            IN IF yt = NoObject THEN Stop("returned", "unresolved")
               ELSE IF ~net
               THEN \* get_name raises, the except clause logs; name is unbound
                    \* and line 121 raises
                    Stop("raised", "line116")
               ELSE AddRecord(yt, kw, answer, mem, dflt)

\* add(url, **kwargs): net tells whether the platform answers, answer is what
\* the user types at the prompt.
AddOutcome(u, kw, net, answer) ==
    LET Stop(why, mem, dflt) ==
            Ended("returned", why, mem, dflt, diskConfig, store, created, FALSE)
    IN IF ~cfgExists THEN Stop("no_config", memConfig, defaults)
       ELSE IF ~dbExists THEN Stop("no_db", memConfig, defaults)
       ELSE LET mem  == diskConfig
                dflt == active_options(defaults, kw)
            IN IF dflt.resolution # None /\ dflt.resolution \notin SeqRange(resolutions)
               THEN Stop("bad_resolution", mem, dflt)
               ELSE AddParse(u, kw, net, answer, mem, dflt)

-----------------------------------------------------------------------------
(* core.py: YouMirror.remove, sync and new *)

\* A plausible slip: the return after "not found" is left out (as it is after
\* the missing record store is logged), so the call goes on to the tables.
RemoveOutcome_no_return(u, kw) ==
    LET Stop(outcome, why, mem, made) ==
            Ended(outcome, why, mem, defaults, diskConfig, store, made, FALSE)
    IN IF ~cfgExists THEN Stop("returned", "no_config", memConfig, created)
       ELSE LET mem       == diskConfig
                yt_string == Parsed[u].kind
            IN IF yt_string = None THEN Stop("returned", "invalid_url", mem, created)
               ELSE LET yt    == Parsed[u].yt
                        id    == get_id(yt)
                        made  == created \cup Opened(RemoveTables)
                        table == string_to_table(yt_string)
                    IN IF table = None
                       THEN Stop("raised", "line289", mem, made)
                       ELSE IF ~yt_exists(yt_string, id, mem)
                       THEN Stop("raised", "line305", mem, made)
                       ELSE LET mem1 == [mem EXCEPT ![yt_string] = Del(@, id)]
                            IN Ended("returned", "done", mem1, defaults, mem1,
                                     store, made, FALSE)

\* remove(url, **kwargs)
RemoveOutcome(u, kw) ==
    LET Stop(outcome, why, mem, made) ==
            Ended(outcome, why, mem, defaults, diskConfig, store, made, FALSE)
    IN IF ~cfgExists THEN Stop("returned", "no_config", memConfig, created)
       ELSE LET mem       == diskConfig      \* a missing record store is only logged
                yt_string == Parsed[u].kind
            IN IF yt_string = None THEN Stop("returned", "invalid_url", mem, created)
               ELSE LET yt == Parsed[u].yt
                        id == get_id(yt)
                    IN IF ~yt_exists(yt_string, id, mem)
                       THEN Stop("returned", "not_found", mem, created)
                       ELSE LET made  == created \cup Opened(RemoveTables)
                                table == string_to_table(yt_string)
                            IN IF table = None
                               THEN \* `id in table` raises on None
                                    Stop("raised", "line289", mem, made)
                               ELSE LET mem1 == [mem EXCEPT ![yt_string] = Del(@, id)]
                                    IN Ended("returned", "done", mem1, defaults, mem1,
                                             store, made, FALSE)

\* A plausible slip: sync opens the tables it would reconcile against.
SyncOutcome_opens ==
    IF ~cfgExists
    THEN Ended("returned", "no_config", memConfig, defaults, diskConfig, store, created, FALSE)
    ELSE Ended("returned", "done", diskConfig, defaults, diskConfig, store,
               created \cup Opened(<<"paths", "files">>), FALSE)

\* sync(): the config is loaded and read.
SyncOutcome ==
    IF ~cfgExists
    THEN Ended("returned", "no_config", memConfig, defaults, diskConfig, store, created, FALSE)
    ELSE Ended("returned", "done", diskConfig, defaults, diskConfig, store, created, FALSE)

-----------------------------------------------------------------------------
(* SpecResolver: get_pytube with its cache, get_metadata and helper.py's   *)
(* resolve_collision, driven directly                                      *)

\* A plausible slip: the new object is returned without being put in the cache.
get_pytube_uncached(u, c) ==
    IF u \in DOMAIN c
    THEN [object |-> c[u], cache |-> c, constructed |-> FALSE]
    ELSE LET url_type == link_type(u)
         IN IF url_type \notin Kinds
            THEN [object |-> NoObject, cache |-> c, constructed |-> FALSE]
            ELSE LET w == wrap_url(u, url_type)
                 IN IF w.raised
                    THEN [object |-> NoObject, cache |-> c, constructed |-> FALSE]
                    ELSE [object |-> w.object, cache |-> c, constructed |-> TRUE]

\* get_pytube(url, cache) as tuber.py defines it: the object returned (NoObject
\* for None), the cache afterwards, and whether a pytube object was constructed.
get_pytube_cached(u, c) ==
    IF u \in DOMAIN c
    THEN [object |-> c[u], cache |-> c, constructed |-> FALSE]
    ELSE LET url_type == link_type(u)
         IN IF url_type \notin Kinds
            THEN \* objects[None] raises inside the try; the except returns None
                 [object |-> NoObject, cache |-> c, constructed |-> FALSE]
            ELSE LET w == wrap_url(u, url_type)
                 IN IF w.raised
                    THEN [object |-> NoObject, cache |-> c, constructed |-> FALSE]
                    ELSE [object |-> w.object, cache |-> Put(c, u, w.object),
                          constructed |-> TRUE]

\* A plausible implementation slip: the id is appended whatever the path.
helper_resolve_collision_suffix(yt, filename) == filename \o yt.id

\* helper.py's resolve_collision(yt, filename): it returns '' for every input.
helper_resolve_collision(yt, filename) == <<>>

\* Paths resolve_collision is tried on, and the known paths it is tried against.
TestPaths == {S_singles, S_singles \o <<"a">>, S_playlists \o S_slash \o <<"P">>}

NoRCall == [fn |-> "none", url |-> <<>>, hit |-> FALSE, object |-> NoObject,
            constructed |-> FALSE, before |-> EmptyMap, probeOk |-> TRUE,
            available |-> FALSE, raised |-> FALSE, path |-> <<>>, paths |-> {},
            result |-> <<>>, again |-> <<>>]

ResolverIdle ==
    /\ cache = EmptyMap
    /\ built = [u \in MirrorUrls |-> 0]
    /\ rcall = NoRCall
    /\ nCalls = 0

\* get_pytube(u, cache) is called with the shared cache.
GetPytube(u) ==
    /\ nCalls < MaxCalls
    /\ LET r == get_pytube_cached(u, cache)
       IN /\ cache' = r.cache
          /\ built' = [built EXCEPT ![u] = IF r.constructed THEN @ + 1 ELSE @]
          /\ rcall' = [NoRCall EXCEPT !.fn = "get_pytube", !.url = u,
                                      !.hit = (u \in DOMAIN cache),
                                      !.object = r.object,
                                      !.constructed = r.constructed,
                                      !.before = cache]
    /\ nCalls' = nCalls + 1
    /\ UNCHANGED <<parserVars, storeVars, mirrorVars, downloaderVars>>

\* get_metadata(yt) is called on a resolved object; probeOk tells whether
\* yt.check_availability() returns (TRUE) or raises (FALSE).
GetMetadata(u, probeOk) ==
    /\ nCalls < MaxCalls
    /\ u \in DOMAIN cache
    /\ LET m == get_metadata(cache[u], probeOk)
       IN rcall' = [NoRCall EXCEPT !.fn = "get_metadata", !.url = u,
                                   !.object = cache[u], !.before = cache,
                                   !.probeOk = probeOk,
                                   !.available = m.available]
    /\ nCalls' = nCalls + 1
    /\ UNCHANGED <<cache, built, parserVars, storeVars, mirrorVars, downloaderVars>>

\* resolve_collision is called for a resolved object and a path, then once
\* more on what it returned; paths is the set of paths the caller knows.
ResolveCollision(u, path, paths) ==
    /\ nCalls < MaxCalls
    /\ u \in DOMAIN cache
    /\ LET r1 == helper_resolve_collision(cache[u], path)
           r2 == helper_resolve_collision(cache[u], r1)
       IN rcall' = [NoRCall EXCEPT !.fn = "resolve_collision", !.url = u,
                                   !.object = cache[u], !.before = cache,
                                   !.path = path, !.paths = paths,
                                   !.result = r1, !.again = r2]
    /\ nCalls' = nCalls + 1
    /\ UNCHANGED <<cache, built, parserVars, storeVars, mirrorVars, downloaderVars>>

ResolverNext ==
    \/ \E u \in MirrorUrls : GetPytube(u)
    \/ \E u \in MirrorUrls, probeOk \in BOOLEAN : GetMetadata(u, probeOk)
    \/ \E u \in MirrorUrls, path \in TestPaths, paths \in SUBSET TestPaths :
          ResolveCollision(u, path, paths)

-----------------------------------------------------------------------------
(* downloader.py: the choice of a video stream *)

\* resolutions.index(r)
Index(r) == CHOOSE i \in 1..Len(resolutions) : resolutions[i] = r

\* The highest of a non-empty set of resolutions.
Highest(S) == CHOOSE r \in S : \A q \in S : Index(r) <= Index(q)

\* The while loop of get_video_stream: resolution is the one tried in this
\* pass, find_res what the iterator has left, mp4 the resolutions the video
\* has an mp4 stream at.  next(find_res) runs in every pass, after the try.
RECURSIVE find_stream(_, _, _)
find_stream(resolution, find_res, mp4) ==
    IF find_res = <<>>
    THEN [raised |-> TRUE, stream |-> None]               \* StopIteration
    ELSE IF resolution \in mp4
    THEN [raised |-> FALSE, stream |-> resolution]
    ELSE find_stream(Head(find_res), Tail(find_res), mp4)

\* get_video_stream(yt, options): resolution is options["resolution"], or None
\* when options has no such key; the stream returned is named by its
\* resolution.
get_video_stream(yts, resolution) ==
    IF resolution = None
    THEN [raised |-> FALSE,
          stream |-> IF yts.prog = {} THEN None ELSE Highest(yts.prog)]
    ELSE IF resolution \notin SeqRange(resolutions)
    THEN [raised |-> TRUE, stream |-> None]               \* ValueError of index
    ELSE find_stream(resolution,
                     SubSeq(resolutions, Index(resolution), Len(resolutions)),
                     yts.mp4)

\* The streams a video may offer: the resolutions with an mp4 stream, and
\* those among them whose stream is progressive.
StreamSets ==
    {[mp4 |-> m, prog |-> p] : m \in SUBSET SeqRange(resolutions),
                               p \in SUBSET SeqRange(resolutions)}

NoSCall == [fn |-> "none", resolution |-> None, raised |-> FALSE, stream |-> None]

DownloaderIdle ==
    /\ streams = [mp4 |-> {}, prog |-> {}]
    /\ scall = NoSCall

DownloaderInit ==
    /\ streams \in {x \in StreamSets : x.prog \subseteq x.mp4}
    /\ scall = NoSCall

GetVideoStream(resolution) ==
    /\ LET r == get_video_stream(streams, resolution)
       IN scall' = [fn |-> "get_video_stream", resolution |-> resolution,
                    raised |-> r.raised, stream |-> r.stream]
    /\ UNCHANGED <<streams, parserVars, storeVars, mirrorVars, resolverVars>>

DownloaderNext ==
    \E resolution \in SeqRange(resolutions) \cup {None, "999p"} :
        GetVideoStream(resolution)

-----------------------------------------------------------------------------
(* Spec: the mirror under new, add, remove and sync *)

EntityUrls == {U_single, U_playlist, U_channel}

\* The config file that declares exactly the entities of the URLs in S.
ConfigOf(S) ==
    [k \in Kinds |->
        [id \in {get_id(get_pytube(u)) : u \in {v \in S : link_type(v) = k}} |->
            Specs(get_pytube(CHOOSE u \in S : link_type(u) = k /\ get_id(get_pytube(u)) = id),
                  NoArgs)]]

\* The files planned for a single video under the default options.
PlannedFiles(u) ==
    DOMAIN get_keys(get_pytube(u), EmptyMap, DefaultOptions, EmptyMap, TRUE).files

S_other == <<"x", ".", "t", "x", "t">>

FileUniverse == PlannedFiles(U_single) \cup {S_other}

\* Whether the platform answers, and what the user types at the prompt (the
\* prompt comes after the platform has answered).
Worlds ==
    {[net |-> TRUE, answer |-> "y"], [net |-> TRUE, answer |-> "n"],
     [net |-> FALSE, answer |-> "n"]}

NoOp == [op |-> "none", url |-> <<>>, kw |-> NoArgs, outcome |-> "none",
         why |-> "", prompted |-> FALSE, preConfig |-> EmptyConfig,
         preStore |-> EmptyStore, preCreated |-> {}, preFiles |-> {},
         preExists |-> <<FALSE, FALSE, FALSE>>]

MirrorInit ==
    /\ dirExists \in BOOLEAN
    /\ cfgExists \in {x \in BOOLEAN : x => dirExists}
    /\ dbExists \in {x \in BOOLEAN : x => dirExists}
    /\ diskConfig \in {ConfigOf(S) : S \in IF cfgExists THEN SUBSET EntityUrls ELSE {{}}}
    /\ diskFiles \in IF dirExists THEN {{}, FileUniverse} ELSE {{}}
    /\ memConfig = EmptyMap
    /\ defaults = DefaultOptions
    /\ last = NoOp
    /\ nOps = 0

ParserIdle == url = <<>> /\ call = NoCall

Record(op, u, kw, r) ==
    [op |-> op, url |-> u, kw |-> kw, outcome |-> r.outcome, why |-> r.why,
     prompted |-> r.prompted, preConfig |-> diskConfig, preStore |-> store,
     preCreated |-> created, preFiles |-> diskFiles,
     preExists |-> <<dirExists, cfgExists, dbExists>>]

Apply(op, u, kw, r) ==
    /\ memConfig' = r.mem
    /\ defaults' = r.dflt
    /\ diskConfig' = r.cfg
    /\ store' = r.st
    /\ created' = r.made
    /\ last' = Record(op, u, kw, r)
    /\ nOps' = nOps + 1
    /\ UNCHANGED <<dirExists, cfgExists, dbExists, diskFiles, dbcall, nWrites, parserVars,
                   resolverVars, downloaderVars>>

Add(u, kw, net, answer) ==
    /\ nOps < MaxOps
    /\ \E r \in {AddOutcome(u, kw, net, answer)} : Apply("add", u, kw, r)

Remove(u, kw) ==
    /\ nOps < MaxOps
    /\ \E r \in {RemoveOutcome(u, kw)} : Apply("remove", u, kw, r)

Sync ==
    /\ nOps < MaxOps
    /\ \E r \in {SyncOutcome} : Apply("sync", <<>>, NoArgs, r)

\* new(root): the directory, the config file and the record-store file are
\* created when missing.
New ==
    /\ nOps < MaxOps
    /\ dirExists' = TRUE
    /\ cfgExists' = TRUE
    /\ dbExists' = TRUE
    /\ diskConfig' = IF cfgExists THEN diskConfig ELSE EmptyConfig
    /\ last' = Record("new", <<>>, NoArgs,
                      [outcome |-> "returned", why |-> "done", prompted |-> FALSE])
    /\ nOps' = nOps + 1
    /\ UNCHANGED <<memConfig, defaults, store, created, diskFiles, dbcall, nWrites,
                   parserVars, resolverVars, downloaderVars>>

\* cli.py's new command: YouMirror(root=root) is built and new() is called
\* with no root, which raises TypeError before anything is looked at.
CliNew ==
    /\ nOps < MaxOps
    /\ last' = Record("cli_new", <<>>, NoArgs,
                      [outcome |-> "raised", why |-> "cli35", prompted |-> FALSE])
    /\ nOps' = nOps + 1
    /\ UNCHANGED <<dirExists, cfgExists, dbExists, diskConfig, memConfig, defaults,
                   store, created, diskFiles, dbcall, nWrites, parserVars,
                   resolverVars, downloaderVars>>

\* cli.py's sync command: sync(url=url, update=update) is called, and sync
\* takes neither keyword, which raises TypeError before anything is looked at.
CliSync ==
    /\ nOps < MaxOps
    /\ last' = Record("cli_sync", <<>>, NoArgs,
                      [outcome |-> "raised", why |-> "cli26", prompted |-> FALSE])
    /\ nOps' = nOps + 1
    /\ UNCHANGED <<dirExists, cfgExists, dbExists, diskConfig, memConfig, defaults,
                   store, created, diskFiles, dbcall, nWrites, parserVars,
                   resolverVars, downloaderVars>>

MirrorNext ==
    \/ \E u \in MirrorUrls, kw \in AddArgs, w \in Worlds : Add(u, kw, w.net, w.answer)
    \/ \E u \in MirrorUrls, kw \in RemoveArgs : Remove(u, kw)
    \/ Sync
    \/ New
    \/ CliNew
    \/ CliSync

Init == ParserIdle /\ StoreInit /\ MirrorInit /\ ResolverIdle /\ DownloaderIdle
Next == MirrorNext
Spec == Init /\ [][Next]_vars

MirrorIdle ==
    /\ dirExists = FALSE /\ cfgExists = FALSE /\ dbExists = FALSE
    /\ diskConfig = EmptyConfig /\ diskFiles = {} /\ memConfig = EmptyMap
    /\ defaults = DefaultOptions /\ last = NoOp /\ nOps = 0

InitParser == ParserInit /\ StoreInit /\ MirrorIdle /\ ResolverIdle /\ DownloaderIdle
SpecParser == InitParser /\ [][ParserNext]_vars

InitStore == ParserIdle /\ StoreInit /\ MirrorIdle /\ ResolverIdle /\ DownloaderIdle
SpecStore == InitStore /\ [][StoreNext]_vars

InitResolver == ParserIdle /\ StoreInit /\ MirrorIdle /\ ResolverIdle /\ DownloaderIdle
SpecResolver == InitResolver /\ [][ResolverNext]_vars

InitDownloader == ParserIdle /\ StoreInit /\ MirrorIdle /\ ResolverIdle /\ DownloaderInit
SpecDownloader == InitDownloader /\ [][DownloaderNext]_vars

-----------------------------------------------------------------------------
(* The claims *)

\* The entity each well-formed URL of the mirror names, written out.
EntityOf(u) ==
    CASE u = U_single   -> [kind |-> "single",   id |-> <<"a">>]
      [] u = U_playlist -> [kind |-> "playlist", id |-> <<"p">>]
      [] u = U_channel  -> [kind |-> "channel",  id |-> <<"k">>]

InConfig(cfg, u) ==
    /\ u \in EntityUrls
    /\ EntityOf(u).id \in DOMAIN cfg[EntityOf(u).kind]

PluralOf(kind) ==
    CASE kind = "channel"  -> "channels"
      [] kind = "playlist" -> "playlists"
      [] kind = "single"   -> "singles"

\* A record is kept for the entity of u, under either spelling of its table.
InStore(st, u) ==
    /\ u \in EntityUrls
    /\ \/ EntityOf(u).id \in DOMAIN st[EntityOf(u).kind]
       \/ EntityOf(u).id \in DOMAIN st[PluralOf(EntityOf(u).kind)]

\* The five kinds of table the record store declares.
DeclaredKinds == {"channels", "playlists", "singles", "paths", "files"}

\* C1: link_type returns channel for a string holding a channel marker, else
\* playlist for one holding 'playlist?list', else single for one holding
\* 'watch?v=', else None; it never raises, and a repeated call on the same
\* string returns what the first call returned.
C1_LinkTypeTotal ==
    call.fn = "link_type" =>
        LET u    == call.url
            isCh == \E s \in {S_user, S_channel, S_c} : Contains(u, s)
            isPl == Contains(u, S_playlist)
            isSi == Contains(u, S_watch)
        IN /\ ~call.raised
           /\ isCh => call.result = "channel"
           /\ (~isCh /\ isPl) => call.result = "playlist"
           /\ (~isCh /\ ~isPl /\ isSi) => call.result = "single"
           /\ (~isCh /\ ~isPl /\ ~isSi) => call.result = None
           /\ call.again => call.result = call.before

\* A string holding both a channel marker and 'watch?v=' was classified twice.
C1_Witness ==
    /\ call.fn = "link_type"
    /\ call.again
    /\ call.result = "channel"
    /\ Contains(call.url, S_watch)

\* C2: link_id(url), called without a kind on a URL of no known shape, yields
\* an error result and does not raise.
C2_LinkIdNoShapeNoRaise ==
    (/\ call.fn = "link_id"
     /\ call.kind = None
     /\ ~(\E s \in {S_user, S_channel, S_c, S_playlist, S_watch} : Contains(call.url, s)))
        => ~call.raised

\* C3: get_table returns a table exactly for the names channels, playlists,
\* singles, paths, files, and creates no table for any other name.
C3_GetTableFiveKinds ==
    dbcall.fn = "get_table" =>
        /\ (dbcall.handle # None) <=> (dbcall.name \in DeclaredKinds)
        /\ dbcall.name \notin DeclaredKinds => created = dbcall.createdBefore

\* C4: set_item on a table is an upsert for a non-empty id (the id maps to keys
\* afterwards, every other key is unchanged, the id is returned) and is
\* rejected, leaving the table unchanged, for an empty id.
C4_SetItemUpsert ==
    (dbcall.fn = "set_item" /\ dbcall.handle # None) =>
        LET t == store[dbcall.handle]
        IN IF dbcall.id # <<>>
           THEN /\ DOMAIN t = (DOMAIN dbcall.before) \cup {dbcall.id}
                /\ t[dbcall.id] = dbcall.keys
                /\ \A k \in (DOMAIN dbcall.before) \ {dbcall.id} : t[k] = dbcall.before[k]
                /\ dbcall.returned
           ELSE /\ t = dbcall.before
                /\ ~dbcall.returned

\* C5: add of a URL whose (kind, id) is already in the config returns without
\* raising and leaves the config file and every table as they were.
C5_AddExistingNoOp ==
    (last.op = "add" /\ InConfig(last.preConfig, last.url)) =>
        /\ last.outcome = "returned"
        /\ diskConfig = last.preConfig
        /\ store = last.preStore
        /\ created = last.preCreated

\* add found the entity in the config and reported it.
C5_Witness ==
    /\ last.op = "add"
    /\ InConfig(last.preConfig, last.url)
    /\ last.why = "exists"

C8_NoDlAddsEntity ==
    (/\ last.op = "add"
     /\ last.kw.no_dl
     /\ last.url \in EntityUrls
     /\ ~InConfig(last.preConfig, last.url)
     /\ last.why \notin {"no_config", "no_db", "bad_resolution", "line116"})
        => /\ last.outcome = "returned"
           /\ InConfig(diskConfig, last.url)
           /\ InStore(store, last.url)
           /\ ~last.prompted
           /\ diskFiles = last.preFiles

\* C9: after remove of an entity that is in the config, its record is not in
\* the table of its kind and its entry is not in the saved config.
C9_RemoveDeletesRecordAndEntry ==
    (/\ last.op = "remove"
     /\ last.preExists[2] /\ last.preExists[3]
     /\ InConfig(last.preConfig, last.url))
        => /\ ~InConfig(diskConfig, last.url)
           /\ ~InStore(store, last.url)

\* C10: remove of a tracked entity deletes all of the entity's files when
\* no_rm is not set and deletes no file when no_rm is set.
C10_RemoveDeletesFilesUnlessNoRm ==
    (/\ last.op = "remove"
     /\ last.preExists[2] /\ last.preExists[3]
     /\ last.url = U_single
     /\ InConfig(last.preConfig, last.url))
        => IF last.kw.no_rm
           THEN diskFiles = last.preFiles
           ELSE diskFiles \cap {<<"s", "i", "n", "g", "l", "e", "s", "/",
                                  "a", "_", "b", ".", "m", "p", "4">>} = {}

C13_ResolveCollisionSuffix ==
    rcall.fn = "resolve_collision" =>
        IF rcall.path \in rcall.paths
        THEN rcall.result = rcall.path \o rcall.object.id
        ELSE rcall.result = rcall.path

AddsNew(u) ==
    /\ last.op = "add"
    /\ last.url = u
    /\ ~InConfig(last.preConfig, u)
    /\ last.why \notin {"no_config", "no_db", "bad_resolution", "line116"}

\* The Single records kept, under either spelling of their table.
SinglesTables == {"single", "singles"}

\* C16: adding a standalone single video with only the video file type enabled
\* records a Single with parent_type "single" whose plan is exactly one file,
\* of type video, at singles/<title, spaces as underscores>.mp4.
C16_SingleVideoPlan ==
    AddsNew(U_single) =>
        \E t \in SinglesTables :
            /\ <<"a">> \in DOMAIN store[t]
            /\ store[t][<<"a">>].parent_type = "single"
            /\ DOMAIN store[t][<<"a">>].files =
                   {S_singles \o S_slash \o <<"a", "_", "b">> \o S_mp4}
            /\ \A f \in DOMAIN store[t][<<"a">>].files :
                   store[t][<<"a">>].files[f].type = "video"

\* C17: adding a playlist with n distinct child videos records exactly n
\* Single records, one per child id, each with parent_type "playlist" and
\* parent_id the playlist's id.
C17_ContainerChildren ==
    AddsNew(U_playlist) =>
        \E t \in SinglesTables :
            /\ DOMAIN store[t] = {<<"a">>, <<"b">>}
            /\ \A c \in DOMAIN store[t] :
                   /\ store[t][c].parent_type = "playlist"
                   /\ store[t][c].parent_id = <<"p">>

\* C19: when the availability probe of a single video fails, get_metadata
\* does not raise and records available = true for the video.
C19_ProbeFailureAvailable ==
    (/\ rcall.fn = "get_metadata"
     /\ rcall.object.kind = "single"
     /\ ~rcall.probeOk)
        => /\ ~rcall.raised
           /\ rcall.available = TRUE

\* C19 as amended: when the availability probe of a single video fails,
\* get_metadata does not raise and records available = false for the video.
C19_ProbeFailureUnavailable ==
    (/\ rcall.fn = "get_metadata"
     /\ rcall.object.kind = "single"
     /\ ~rcall.probeOk)
        => /\ ~rcall.raised
           /\ rcall.available = FALSE

\* get_metadata was called on a single video whose probe failed.
C19_Witness ==
    /\ rcall.fn = "get_metadata"
    /\ rcall.object.kind = "single"
    /\ ~rcall.probeOk

\* C20: over calls of get_pytube sharing one cache, a hit returns the cached
\* object and constructs nothing; a successful miss stores the new object
\* under the url and returns it, so at most one object is ever constructed for
\* a url; a failed resolution (a url of no known shape included) returns None
\* and leaves the cache unchanged.
C20_GetPytubeCache ==
    /\ \A u \in DOMAIN built : built[u] <= 1
    /\ rcall.fn = "get_pytube" =>
          /\ ~rcall.raised
          /\ rcall.hit =>
                /\ rcall.object = rcall.before[rcall.url]
                /\ ~rcall.constructed
                /\ cache = rcall.before
          /\ (~rcall.hit /\ rcall.url \in EntityUrls) =>
                /\ rcall.constructed
                /\ rcall.object = [kind |-> EntityOf(rcall.url).kind,
                                   id |-> EntityOf(rcall.url).id,
                                   url |-> rcall.url]
                /\ cache = Put(rcall.before, rcall.url, rcall.object)
          /\ rcall.url \in {U_noid, U_bad} =>
                /\ rcall.object = NoObject
                /\ ~rcall.constructed
                /\ cache = rcall.before

\* A url resolved by an earlier call was asked for again and came from the cache.
C20_Witness ==
    /\ rcall.fn = "get_pytube"
    /\ rcall.hit
    /\ built[rcall.url] = 1
    /\ \E u \in {U_noid, U_bad} : u \notin DOMAIN cache

\* C26: get_video_stream with a resolution preference r returns, without
\* raising, a stream of the highest resolution not above r at which the video
\* has an mp4 stream, whenever there is one; with no preference it returns the
\* highest-resolution progressive mp4 stream.
C26_VideoStreamChoice ==
    scall.fn = "get_video_stream" =>
        IF scall.resolution = None
        THEN streams.prog # {} =>
                 (~scall.raised /\ scall.stream = Highest(streams.prog))
        ELSE scall.resolution \in SeqRange(resolutions) =>
                 LET ok == {q \in streams.mp4 : Index(q) >= Index(scall.resolution)}
                 IN ok # {} => (~scall.raised /\ scall.stream = Highest(ok))

\* C21: add, remove and sync on a root where the config file or the
\* record-store file is missing report it and abort: the call returns without
\* raising, without loading the config, and without creating or changing the
\* config file or any table.
C21_MissingFilesAbort ==
    (/\ last.op \in {"add", "remove", "sync"}
     /\ ~(last.preExists[2] /\ last.preExists[3]))
        => /\ last.outcome = "returned"
           /\ last.why \in {"no_config", "no_db"}
           /\ nOps = 1 => memConfig = EmptyMap
           /\ diskConfig = last.preConfig
           /\ store = last.preStore
           /\ created = last.preCreated

\* C22: in add, a failure of URL classification, id extraction, entity
\* resolution or metadata collection, by an empty result or by an exception,
\* ends the call early: no exception escapes, and the config in memory, the
\* config file and every table hold what they held before.
C22_AddFailuresCaught ==
    (/\ last.op = "add"
     /\ last.why \in {"invalid_url", "line101", "no_id", "unresolved", "line116"})
        => /\ last.outcome = "returned"
           /\ memConfig = last.preConfig
           /\ diskConfig = last.preConfig
           /\ store = last.preStore

Consistent(cfg, st) == \A u \in EntityUrls : InConfig(cfg, u) => InStore(st, u)

C28_OptionsPerCall ==
    (last.op = "add" /\ last.why \notin {"no_config", "no_db"}) =>
        /\ defaults = active_options(DefaultOptions, last.kw)
        /\ last.why = "bad_resolution" =>
               last.kw.resolution \notin SeqRange(resolutions) \cup {None}

\* C29: new creates the mirror directory, the config file and the
\* record-store file when missing and leaves what exists untouched.
C29_NewCreatesMissingOnly ==
    last.op \in {"new", "cli_new"} =>
        /\ last.outcome = "returned"
        /\ dirExists /\ cfgExists /\ dbExists
        /\ last.preExists[2] => diskConfig = last.preConfig
        /\ ~last.preExists[2] => diskConfig = EmptyConfig
        /\ store = last.preStore
        /\ created = last.preCreated
        /\ diskFiles = last.preFiles

====
